---- MODULE Spec2Model ----
(***************************************************************************)
(* Model of extractor.py: the PDF text extractors, the recovery of a JSON  *)
(* value from the language model's free-form output, the two summarizers   *)
(* and main(), the pipeline that runs them for one document.               *)
(*                                                                         *)
(* Text is a sequence of tokens (TLA+ strings).  Python values are tagged  *)
(* pairs: <<"None", "">>, <<"text", tokens>> for a str holding text,       *)
(* and for JSON values <<"str", s>>, <<"num", n>>, <<"arr", elements>>,    *)
(* <<"obj", <<key, value>> pairs in insertion order>>.                     *)
(***************************************************************************)
EXTENDS Integers, Sequences, FiniteSets, TLC

(* ---------------------------- bounds ----------------------------------- *)
MaxPages == 3

(* ------------------------- program constants --------------------------- *)
PromptIndent == 2
FileIndent == 4

(* ------------------------------ tokens --------------------------------- *)
NL == "\n"
SP == " "
\* the three backquotes of a Markdown fence, one token
TICKS == "<3 backquotes>"
Whitespace == {NL, SP}
StrTok == {"\"a\"", "\"b\"", "\"attachments\"", "\"\""}
NumTok == {"0", "5"}

StrOf(tok) ==
    CASE tok = "\"a\"" -> "a"
      [] tok = "\"b\"" -> "b"
      [] tok = "\"attachments\"" -> "attachments"
      [] OTHER -> ""

TokOf(s) ==
    CASE s = "a" -> "\"a\""
      [] s = "b" -> "\"b\""
      [] s = "attachments" -> "\"attachments\""
      [] OTHER -> "\"\""

(* --------------------------- Python values ----------------------------- *)
None == <<"None", "">>
Text(s) == <<"text", s>>
JStr(s) == <<"str", s>>
JNum(n) == <<"num", n>>
JArr(es) == <<"arr", es>>
JObj(ms) == <<"obj", ms>>

Tag(v) == v[1]
Val(v) == v[2]

\* bool(v): None, "", 0, [] and {} are falsy
Truthy(v) ==
    CASE Tag(v) = "None" -> FALSE
      [] Tag(v) = "text" -> Val(v) # <<>>
      [] Tag(v) = "str"  -> Val(v) # ""
      [] Tag(v) = "num"  -> Val(v) # "0"
      [] OTHER           -> Val(v) # <<>>

(* ------------------------------ str.strip ------------------------------ *)
RECURSIVE LStrip(_)
LStrip(s) ==
    IF s # <<>> /\ Head(s) \in Whitespace THEN LStrip(Tail(s)) ELSE s

RECURSIVE RStrip(_)
RStrip(s) ==
    IF s # <<>> /\ s[Len(s)] \in Whitespace
    THEN RStrip(SubSeq(s, 1, Len(s) - 1))
    ELSE s

Strip(s) == RStrip(LStrip(s))

(* ------------- re.search(r'```json\n({.*?})\n```', s, DOTALL) ---------- *)
FenceOpen == <<TICKS, "json", NL, "{">>
FenceClose == <<"}", NL, TICKS>>

\* positions j of a "}" that ends a match begun by the "{" at position b
MatchEnds(s, b) ==
    {j \in (b + 1)..(Len(s) - 2) : SubSeq(s, j, j + 2) = FenceClose}

\* start positions of the pattern that can be completed to a match
MatchStarts(s) ==
    {i \in 1..(Len(s) - 3) :
        /\ SubSeq(s, i, i + 3) = FenceOpen
        /\ MatchEnds(s, i + 3) # {}}

Min(S) == CHOOSE x \in S : \A y \in S : x <= y

Max(S) == CHOOSE x \in S : \A y \in S : x >= y

\* mutant: the group is greedy, {.*} in place of {.*?}
ReSearch_Greedy(s) ==
    IF MatchStarts(s) = {}
    THEN [found |-> FALSE, group |-> <<>>]
    ELSE LET i == Min(MatchStarts(s))
             j == Max(MatchEnds(s, i + 3))
         IN [found |-> TRUE, group |-> SubSeq(s, i + 3, j)]

\* the leftmost match, its lazy group ending at the first possible "}"
ReSearch(s) ==
    IF MatchStarts(s) = {}
    THEN [found |-> FALSE, group |-> <<>>]
    ELSE LET i == Min(MatchStarts(s))
             j == Min(MatchEnds(s, i + 3))
         IN [found |-> TRUE, group |-> SubSeq(s, i + 3, j)]

(* ----------------------------- json.loads ------------------------------ *)
ParseFail == [ok |-> FALSE, val |-> None, rest |-> <<>>]
ParseOk(v, r) == [ok |-> TRUE, val |-> v, rest |-> r]

\* dict insertion: a repeated key keeps its position and takes the new value
ObjPut(ms, k, v) ==
    IF \E n \in 1..Len(ms) : ms[n][1] = k
    THEN [n \in 1..Len(ms) |-> IF ms[n][1] = k THEN <<k, v>> ELSE ms[n]]
    ELSE Append(ms, <<k, v>>)

RECURSIVE ParseValue(_), ParseMembers(_, _), ParseElements(_, _)

ParseValue(s) ==
    LET t == LStrip(s) IN
    IF t = <<>> THEN ParseFail
    ELSE IF Head(t) \in StrTok THEN ParseOk(JStr(StrOf(Head(t))), Tail(t))
    ELSE IF Head(t) \in NumTok THEN ParseOk(JNum(Head(t)), Tail(t))
    ELSE IF Head(t) = "null" THEN ParseOk(None, Tail(t))
    ELSE IF Head(t) = "{" THEN
        LET u == LStrip(Tail(t)) IN
        IF u # <<>> /\ Head(u) = "}" THEN ParseOk(JObj(<<>>), Tail(u))
        ELSE ParseMembers(u, <<>>)
    ELSE IF Head(t) = "[" THEN
        LET u == LStrip(Tail(t)) IN
        IF u # <<>> /\ Head(u) = "]" THEN ParseOk(JArr(<<>>), Tail(u))
        ELSE ParseElements(u, <<>>)
    ELSE ParseFail

\* s starts at a key; acc holds the members read so far
ParseMembers(s, acc) ==
    IF s = <<>> \/ Head(s) \notin StrTok THEN ParseFail
    ELSE
        LET k == StrOf(Head(s))
            u == LStrip(Tail(s))
        IN
        IF u = <<>> \/ Head(u) # ":" THEN ParseFail
        ELSE
            LET r == ParseValue(Tail(u)) IN
            IF ~r.ok THEN ParseFail
            ELSE
                LET w == LStrip(r.rest)
                    ms == ObjPut(acc, k, r.val)
                IN
                IF w = <<>> THEN ParseFail
                ELSE IF Head(w) = "}" THEN ParseOk(JObj(ms), Tail(w))
                ELSE IF Head(w) = "," THEN ParseMembers(LStrip(Tail(w)), ms)
                ELSE ParseFail

\* s starts at an element; acc holds the elements read so far
ParseElements(s, acc) ==
    LET r == ParseValue(s) IN
    IF ~r.ok THEN ParseFail
    ELSE
        LET w == LStrip(r.rest)
            es == Append(acc, r.val)
        IN
        IF w = <<>> THEN ParseFail
        ELSE IF Head(w) = "]" THEN ParseOk(JArr(es), Tail(w))
        ELSE IF Head(w) = "," THEN ParseElements(LStrip(Tail(w)), es)
        ELSE ParseFail

\* mutant: text after the first value is ignored
JsonLoads_IgnoreExtraData(s) ==
    LET r == ParseValue(s) IN
    IF r.ok
    THEN [raised |-> FALSE, val |-> r.val]
    ELSE [raised |-> TRUE, val |-> None]

\* json.loads(s): one value, then only whitespace; raised |-> TRUE models
\* JSONDecodeError
JsonLoads(s) ==
    LET r == ParseValue(s) IN
    IF r.ok /\ LStrip(r.rest) = <<>>
    THEN [raised |-> FALSE, val |-> r.val]
    ELSE [raised |-> TRUE, val |-> None]

(* ----------------------------- json.dumps ------------------------------ *)
RECURSIVE Spaces(_)
Spaces(n) == IF n <= 0 THEN <<>> ELSE <<SP>> \o Spaces(n - 1)

\* separator written before the first item and between items at a depth
Newline(indent, depth) ==
    IF indent = 0 THEN <<>> ELSE <<NL>> \o Spaces(indent * depth)

ItemSep(indent, depth) ==
    IF indent = 0 THEN <<",", SP>> ELSE <<",">> \o Newline(indent, depth)

RECURSIVE Dumps(_, _, _), DumpItems(_, _, _, _, _)

\* json.dumps(v, indent=indent) at nesting depth; indent = 0 stands for the
\* default indent=None
Dumps(v, indent, depth) ==
    CASE Tag(v) = "None" -> <<"null">>
      [] Tag(v) = "str"  -> <<TokOf(Val(v))>>
      [] Tag(v) = "num"  -> <<Val(v)>>
      [] Tag(v) = "arr"  ->
            IF Val(v) = <<>> THEN <<"[", "]">>
            ELSE <<"[">> \o DumpItems(Val(v), 1, FALSE, indent, depth + 1)
                 \o Newline(indent, depth) \o <<"]">>
      [] OTHER ->
            IF Val(v) = <<>> THEN <<"{", "}">>
            ELSE <<"{">> \o DumpItems(Val(v), 1, TRUE, indent, depth + 1)
                 \o Newline(indent, depth) \o <<"}">>

DumpItems(items, n, keyed, indent, depth) ==
    IF n > Len(items) THEN <<>>
    ELSE (IF n = 1 THEN Newline(indent, depth) ELSE ItemSep(indent, depth))
         \o (IF keyed
             THEN <<TokOf(items[n][1]), ":", SP>>
                  \o Dumps(items[n][2], indent, depth)
             ELSE Dumps(items[n], indent, depth))
         \o DumpItems(items, n + 1, keyed, indent, depth)

JsonDumps(v, indent) == Dumps(v, indent, 0)

(* --------------------- the chat completion call ------------------------ *)
\* outcome of client.chat.completions.create(...) followed by
\* response.choices[0].message.content: the text, or one of the failures
Ok(content) == [status |-> "ok", content |-> content]
Failed(status) == [status |-> status, content |-> <<>>]
Pending == Failed("pending")
FailureStatuses == {"api_error", "no_choices", "no_content"}
FailedOutcomes == {Failed(st) : st \in FailureStatuses}

(* ------------------ extract_structured_data_with_llm ------------------- *)
ExtractStructured(outcome) ==
    IF outcome.status # "ok" THEN None
    ELSE
        LET response_text == Strip(outcome.content)
            match == ReSearch(response_text)
            json_str == IF match.found THEN match.group ELSE response_text
            loaded == JsonLoads(json_str)
        IN IF loaded.raised THEN None ELSE loaded.val

(* --------------------------- generate_summary -------------------------- *)
SummaryHeader == "Based on the following data ... Data:"
AttachmentIntro == "Also, consider the following summary from the attachments:"
AttachmentInstruction == "Incorporate any important details from the attachments ..."

\* mutant: the attachment section is appended whether or not a summary is given
GenerateSummaryPrompt_AlwaysAttachments(json_data, attachment_summary) ==
    <<SummaryHeader, NL>> \o JsonDumps(json_data, PromptIndent)
    \o <<NL, NL, AttachmentIntro, NL, "---", NL>>
    \o (IF Tag(attachment_summary) = "text"
        THEN Val(attachment_summary)
        ELSE <<"None">>)
    \o <<NL, "---", NL, AttachmentInstruction, NL>>

GenerateSummaryPrompt(json_data, attachment_summary) ==
    <<SummaryHeader, NL>> \o JsonDumps(json_data, PromptIndent)
    \o (IF Truthy(attachment_summary)
        THEN <<NL, NL, AttachmentIntro, NL, "---", NL>>
             \o Val(attachment_summary)
             \o <<NL, "---", NL, AttachmentInstruction, NL>>
        ELSE <<>>)

GenerateSummary(json_data, attachment_summary, outcome) ==
    IF outcome.status = "ok"
    THEN Text(Strip(outcome.content))
    ELSE Text(<<"Error generating summary: ", outcome.status>>)

(* ------------------------- summarize_attachments ----------------------- *)
\* mutant: a failed call is not turned into an error string
SummarizeAttachments_NoErrorString(attachment_text, outcome) ==
    IF outcome.status = "ok"
    THEN Text(Strip(outcome.content))
    ELSE None

SummarizeAttachments(attachment_text, outcome) ==
    IF outcome.status = "ok"
    THEN Text(Strip(outcome.content))
    ELSE Text(<<"Error generating attachment summary: ", outcome.status>>)

(* ------------- main, lines 171-177: the attachments listing ------------ *)
DictGet(ms, k) ==
    IF \E n \in 1..Len(ms) : ms[n][1] = k
    THEN (CHOOSE m \in {ms[n] : n \in 1..Len(ms)} : m[1] = k)[2]
    ELSE None

\* the exception raised by structured_data.get("attachments") and the loop
\* over its result, "none" when neither raises
ListAttachments(structured_data) ==
    IF Tag(structured_data) # "obj" THEN "AttributeError"
    ELSE LET attachments == DictGet(Val(structured_data), "attachments") IN
         IF Truthy(attachments) /\ Tag(attachments) = "num"
         THEN "TypeError"
         ELSE "none"

(* ------------------------- inputs of the model ------------------------- *)
\* a document is its pages; a page carries its own text or none
PageTok(k) ==
    CASE k = 1 -> "page1" [] k = 2 -> "page2" [] k = 3 -> "page3"
      [] k = 4 -> "page4" [] k = 5 -> "page5" [] OTHER -> "pageN"

Documents == UNION {[1..n -> BOOLEAN] : n \in 1..MaxPages}

\* the JSON objects the model may answer with
Objects ==
    { JObj(<<>>),
      JObj(<< <<"a", JStr("b")>> >>),
      JObj(<< <<"a", JObj(<< <<"b", JStr("a")>> >>)>> >>),
      JObj(<< <<"attachments", JArr(<<JStr("a"), JStr("b")>>)>>,
              <<"a", JStr("b")>> >>),
      JObj(<< <<"attachments", JNum("5")>> >>),
      JObj(<< <<"a", JObj(<< <<"b", JObj(<<>>)>> >>)>>, <<"b", JStr("")>> >>) }

Indents == {0, PromptIndent}
ObjectTexts == {JsonDumps(J, ind) : J \in Objects, ind \in Indents}

Fenced(text) == <<TICKS, "json", NL>> \o text \o <<NL, TICKS>>

\* prose before the block: none, words, braces, a fence that is not a json
\* fence, an unfinished json fence, a finished json fence of another object
PlainPrefixes ==
    { <<>>,
      <<"Here", SP, "is", SP, "the", SP, "JSON:", NL>>,
      <<"{", "fields", "}", NL, TICKS, NL, "{", "}", NL, TICKS, NL>> }
FencePrefixes ==
    { <<"Format:", SP, TICKS, "json", NL, "{", "...", NL, "Answer:", NL>>,
      <<"Example:", NL>> \o Fenced(<<"{", "}">>) \o <<NL>> }
Prefixes == PlainPrefixes \cup FencePrefixes

Suffixes ==
    { <<>>,
      <<NL, "Let", SP, "me", SP, "know.", NL>>,
      <<NL, "{", "done", "}", NL, TICKS>> }

HasFenceOpen(s) ==
    \E n \in 1..(Len(s) - 3) : SubSeq(s, n, n + 3) = FenceOpen

BareResponses == {Ok(t) : t \in ObjectTexts}
FencedResponses ==
    {Ok(pre \o Fenced(t) \o post) :
        pre \in Prefixes, t \in ObjectTexts, post \in Suffixes}

\* JSON cut short: the proper prefixes of two object texts
StrictPrefixes(t) == {SubSeq(t, 1, n) : n \in 1..(Len(t) - 1)}
TruncatedTexts ==
    StrictPrefixes(JsonDumps(JObj(<< <<"a", JObj(<< <<"b", JStr("a")>> >>)>> >>), 0))
    \cup StrictPrefixes(JsonDumps(JObj(<< <<"a", JStr("b")>> >>), PromptIndent))
TruncatedResponses == {Ok(t) : t \in TruncatedTexts}

ProseResponses ==
    { Ok(<<"I", SP, "could", SP, "not", SP, "read", SP, "the", SP, "form.">>),
      Ok(<<"The", SP, "fields", SP, "are", SP, "{", "unknown", "}">>) }

EmptyResponses == {Ok(<<>>), Ok(<<SP, NL>>)}

\* a located block whose content does not parse; the second is followed by
\* a block that would
BadBlock == <<"{", "\"a\"", ":", SP, "\"b\"", "}", SP, "and", SP, "more", "}">>
BadFencedResponses ==
    { Ok(Fenced(BadBlock)),
      Ok(Fenced(BadBlock) \o <<NL>>
         \o Fenced(JsonDumps(JObj(<< <<"a", JStr("b")>> >>), 0))),
      Ok(<<"Result:", NL>> \o Fenced(<<"{", "\"a\"", ":", SP, "{", "}">>)),
      Ok(Fenced(<<"{", "\"a\"", ":", SP, "\"b\"", ",", "}">>)) }

MalformedOutcomes ==
    TruncatedResponses \cup ProseResponses \cup EmptyResponses
    \cup BadFencedResponses \cup FailedOutcomes

\* valid JSON that is not an object
NonObjectTexts ==
    { <<"[", "\"a\"", ",", SP, "\"b\"", "]">>,
      <<"\"a\"">>,
      <<"5">>,
      <<"[", "]">>,
      <<"0">>,
      <<"null">> }
NonObjectResponses == {Ok(t) : t \in NonObjectTexts}

ExtractOutcomes ==
    BareResponses \cup FencedResponses \cup MalformedOutcomes
    \cup NonObjectResponses

SummaryOutcomes ==
    {Ok(<<"The", SP, "summary.">>), Ok(<<NL, "Trimmed.", SP, NL>>), Ok(<<NL>>)}
    \cup FailedOutcomes

(* ------------------------------- state --------------------------------- *)
VARIABLES
    pc,                 \* position in main and in the extractor it called
    raised,             \* exception that ended main, "none" while there is none
    pages,              \* the document at pdf_path
    doc,                \* the fitz document of the current extractor call
    i,                  \* loop index of the extractor (0-based page number)
    text,               \* text accumulated by the extractor
    form_text,
    response,           \* outcome of the model call of the structured extractor
    structured_data,
    attachment_text,
    attachment_summary,
    prompt,             \* prompt built by generate_summary
    summary,
    files,              \* output.json, attachment_summary.txt, summary.txt
    calls               \* model calls made, by function

vars == <<pc, raised, pages, doc, i, text, form_text, response,
          structured_data, attachment_text, attachment_summary, prompt,
          summary, files, calls>>

PageText(k) == IF pages[k] THEN <<PageTok(k)>> ELSE <<>>
page_count == Len(pages)

Init ==
    /\ pc = "etp_open"
    /\ raised = "none"
    /\ pages \in Documents
    /\ doc = "unopened"
    /\ i = 0
    /\ text = <<>>
    /\ form_text = None
    /\ response = Pending
    /\ structured_data = None
    /\ attachment_text = None
    /\ attachment_summary = None
    /\ prompt = <<>>
    /\ summary = None
    /\ files = [json |-> None, attachment |-> None, summary |-> None]
    /\ calls = [extract |-> 0, attachments |-> 0, summary |-> 0]

(* ---------------- extract_text_from_pdf(pdf_path), line 142 ------------ *)
\* fitz.open and the loop set-up; main passes no max_pages, so num_pages is
\* doc.page_count
EtpOpen ==
    /\ pc = "etp_open"
    /\ \E opened \in BOOLEAN :
        IF opened
        THEN /\ doc' = "open"
             /\ text' = <<>>
             /\ i' = 0
             /\ pc' = "etp_loop"
             /\ UNCHANGED form_text
        ELSE /\ form_text' = None
             /\ pc' = "L143"
             /\ UNCHANGED <<doc, text, i>>
    /\ UNCHANGED <<raised, pages, response, structured_data, attachment_text,
                   attachment_summary, prompt, summary, files, calls>>

\* one iteration: text += doc[i].get_text(), or the exception handler
EtpPage ==
    /\ pc = "etp_loop"
    /\ i < page_count
    /\ \E read \in BOOLEAN :
        IF read
        THEN /\ text' = text \o PageText(i + 1)
             /\ i' = i + 1
             /\ UNCHANGED <<pc, form_text>>
        ELSE /\ form_text' = None
             /\ pc' = "L143"
             /\ UNCHANGED <<text, i>>
    /\ UNCHANGED <<raised, pages, doc, response, structured_data,
                   attachment_text, attachment_summary, prompt, summary,
                   files, calls>>

\* doc.close(); return text
EtpClose ==
    /\ pc = "etp_loop"
    /\ i >= page_count
    /\ doc' = "closed"
    /\ form_text' = Text(text)
    /\ pc' = "L143"
    /\ UNCHANGED <<raised, pages, i, text, response, structured_data,
                   attachment_text, attachment_summary, prompt, summary,
                   files, calls>>

(* ------------------ extract_attachment_text(pdf_path) ------------------ *)
\* mutant: the loop starts at the first page, range(0, doc.page_count)
EatOpen_FromFirstPage ==
    /\ pc = "eat_open"
    /\ \E opened \in BOOLEAN :
        IF opened
        THEN /\ doc' = "open"
             /\ text' = <<>>
             /\ i' = 0
             /\ pc' = "eat_loop"
             /\ UNCHANGED attachment_text
        ELSE /\ attachment_text' = Text(<<>>)
             /\ pc' = "L162"
             /\ doc' = "unopened"
             /\ text' = <<>>
             /\ UNCHANGED i
    /\ UNCHANGED <<raised, pages, form_text, response, structured_data,
                   attachment_summary, prompt, summary, files, calls>>

EatOpen ==
    /\ pc = "eat_open"
    /\ \E opened \in BOOLEAN :
        IF opened
        THEN /\ doc' = "open"
             /\ text' = <<>>
             /\ i' = 1
             /\ pc' = "eat_loop"
             /\ UNCHANGED attachment_text
        ELSE /\ attachment_text' = Text(<<>>)
             /\ pc' = "L162"
             /\ doc' = "unopened"
             /\ text' = <<>>
             /\ UNCHANGED i
    /\ UNCHANGED <<raised, pages, form_text, response, structured_data,
                   attachment_summary, prompt, summary, files, calls>>

EatPage ==
    /\ pc = "eat_loop"
    /\ page_count > 1
    /\ i < page_count
    /\ \E read \in BOOLEAN :
        IF read
        THEN /\ text' = text \o PageText(i + 1)
             /\ i' = i + 1
             /\ UNCHANGED <<pc, attachment_text>>
        ELSE /\ attachment_text' = Text(<<>>)
             /\ pc' = "L162"
             /\ UNCHANGED <<text, i>>
    /\ UNCHANGED <<raised, pages, doc, form_text, response, structured_data,
                   attachment_summary, prompt, summary, files, calls>>

EatClose ==
    /\ pc = "eat_loop"
    /\ ~(page_count > 1 /\ i < page_count)
    /\ doc' = "closed"
    /\ attachment_text' = Text(text)
    /\ pc' = "L162"
    /\ UNCHANGED <<raised, pages, i, text, form_text, response,
                   structured_data, attachment_summary, prompt, summary,
                   files, calls>>

(* -------------------------------- main --------------------------------- *)
\* lines 143-144
MainCheckText ==
    /\ pc = "L143"
    /\ pc' = IF ~Truthy(form_text) THEN "ret144" ELSE "L147"
    /\ UNCHANGED <<raised, pages, doc, i, text, form_text, response,
                   structured_data, attachment_text, attachment_summary,
                   prompt, summary, files, calls>>

\* mutant: the check of lines 148-150 is missing
MainExtract_NoReturn ==
    /\ pc = "L147"
    /\ \E outcome \in ExtractOutcomes :
        /\ response' = outcome
        /\ structured_data' = ExtractStructured(outcome)
    /\ calls' = [calls EXCEPT !.extract = @ + 1]
    /\ pc' = "L153"
    /\ UNCHANGED <<raised, pages, doc, i, text, form_text, attachment_text,
                   attachment_summary, prompt, summary, files>>

\* lines 147-150
MainExtract ==
    /\ pc = "L147"
    /\ \E outcome \in ExtractOutcomes :
        /\ response' = outcome
        /\ structured_data' = ExtractStructured(outcome)
    /\ calls' = [calls EXCEPT !.extract = @ + 1]
    /\ pc' = IF ~Truthy(structured_data') THEN "ret150" ELSE "L153"
    /\ UNCHANGED <<raised, pages, doc, i, text, form_text, attachment_text,
                   attachment_summary, prompt, summary, files>>

\* lines 153-161: json.dump to output.json, then the call of
\* extract_attachment_text
MainSaveJson ==
    /\ pc = "L153"
    /\ files' = [files EXCEPT
                    !.json = Text(JsonDumps(structured_data, FileIndent))]
    /\ attachment_summary' = None
    /\ pc' = "eat_open"
    /\ UNCHANGED <<raised, pages, doc, i, text, form_text, response,
                   structured_data, attachment_text, prompt, summary, calls>>

\* mutant: the attachments are summarized whether or not there is text
MainAttachments_Unconditional ==
    /\ pc = "L162"
    /\ \E outcome \in SummaryOutcomes :
        LET s == SummarizeAttachments(attachment_text, outcome) IN
        /\ attachment_summary' = s
        /\ files' = [files EXCEPT !.attachment = s]
        /\ calls' = [calls EXCEPT !.attachments = @ + 1]
    /\ pc' = "L171"
    /\ UNCHANGED <<raised, pages, doc, i, text, form_text, response,
                   structured_data, attachment_text, prompt, summary>>

\* lines 162-168
MainAttachments ==
    /\ pc = "L162"
    /\ IF Truthy(attachment_text)
       THEN \E outcome \in SummaryOutcomes :
            LET s == SummarizeAttachments(attachment_text, outcome) IN
            /\ attachment_summary' = s
            /\ files' = [files EXCEPT !.attachment = s]
            /\ calls' = [calls EXCEPT !.attachments = @ + 1]
       ELSE UNCHANGED <<attachment_summary, files, calls>>
    /\ pc' = "L171"
    /\ UNCHANGED <<raised, pages, doc, i, text, form_text, response,
                   structured_data, attachment_text, prompt, summary>>

\* lines 171-177
MainListAttachments ==
    /\ pc = "L171"
    /\ raised = "none"
    /\ LET exc == ListAttachments(structured_data) IN
       IF exc = "none"
       THEN pc' = "L180" /\ UNCHANGED raised
       ELSE raised' = exc /\ UNCHANGED pc
    /\ UNCHANGED <<pages, doc, i, text, form_text, response, structured_data,
                   attachment_text, attachment_summary, prompt, summary,
                   files, calls>>

\* line 180
MainSummary ==
    /\ pc = "L180"
    /\ prompt' = GenerateSummaryPrompt(structured_data, attachment_summary)
    /\ \E outcome \in SummaryOutcomes :
        summary' = GenerateSummary(structured_data, attachment_summary, outcome)
    /\ calls' = [calls EXCEPT !.summary = @ + 1]
    /\ pc' = "L183"
    /\ UNCHANGED <<raised, pages, doc, i, text, form_text, response,
                   structured_data, attachment_text, attachment_summary,
                   files>>

\* lines 183-184
MainSaveSummary ==
    /\ pc = "L183"
    /\ files' = [files EXCEPT !.summary = summary]
    /\ pc' = "end"
    /\ UNCHANGED <<raised, pages, doc, i, text, form_text, response,
                   structured_data, attachment_text, attachment_summary,
                   prompt, summary, calls>>

Next ==
    \/ EtpOpen \/ EtpPage \/ EtpClose
    \/ MainCheckText
    \/ MainExtract
    \/ MainSaveJson
    \/ EatOpen \/ EatPage \/ EatClose
    \/ MainAttachments
    \/ MainListAttachments
    \/ MainSummary
    \/ MainSaveSummary

Spec == Init /\ [][Next]_vars

(* ============================ properties =============================== *)
NoFiles == [json |-> None, attachment |-> None, summary |-> None]
Terminated == pc \in {"ret144", "ret150", "end"} \/ raised # "none"

\* s occurs in t as a contiguous run of tokens
Contains(t, s) ==
    \E n \in 0..(Len(t) - Len(s)) : SubSeq(t, n + 1, n + Len(s)) = s

NestedObject == JObj(<< <<"a", JObj(<< <<"b", JStr("a")>> >>)>> >>)

\* what C1 asks of the run when the model answered with J, fenced or bare
ExtractorReturned == pc \in {"L153", "ret150"}

RecoversObject(J, ind) ==
    /\ structured_data = J
    /\ ExtractStructured(Ok(JsonDumps(J, ind))) = structured_data

\* C1 as stated: for every object J and every surrounding prose, the output
\* with J in a json fenced block and the bare text of J both parse to J.
C1_AnyProse ==
    ExtractorReturned =>
    \A J \in Objects, ind \in Indents, pre \in Prefixes, post \in Suffixes :
        response = Ok(pre \o Fenced(JsonDumps(J, ind)) \o post)
            => RecoversObject(J, ind)

\* C1 amended: the same for every prose after the block and every prose
\* before it in which no json fence opener occurs; the bare text of J parses
\* to J.
C1_ProseWithoutFence ==
    ExtractorReturned =>
    /\ \A J \in Objects, ind \in Indents, pre \in Prefixes, post \in Suffixes :
        /\ ~HasFenceOpen(pre)
        /\ response = Ok(pre \o Fenced(JsonDumps(J, ind)) \o post)
        => RecoversObject(J, ind)
    /\ \A J \in Objects, ind \in Indents :
        response = Ok(JsonDumps(J, ind)) => RecoversObject(J, ind)

C1_Witness ==
    /\ pc = "L153"
    /\ response = Ok(<<"Here", SP, "is", SP, "the", SP, "JSON:", NL>>
                     \o Fenced(JsonDumps(NestedObject, PromptIndent))
                     \o <<NL, "{", "done", "}", NL, TICKS>>)
    /\ structured_data = NestedObject

\* C2: a malformed outcome of the model call (truncated JSON, prose, empty
\* or missing text, a located block that does not parse, a failed call)
\* makes the extractor return None, and main stops without a record.
C2_MalformedIsNone ==
    response \in MalformedOutcomes => structured_data = None /\ pc = "ret150"

C2_Witness ==
    /\ pc = "ret150"
    /\ response = Ok(Fenced(BadBlock) \o <<NL>>
                     \o Fenced(JsonDumps(JObj(<< <<"a", JStr("b")>> >>), 0)))
    /\ structured_data = None

\* C3: output that is valid JSON but not an object is an extraction error
\* and nothing is written for the document.
C3_NonObjectSkipped ==
    response \in NonObjectResponses
        => structured_data = None /\ files = NoFiles

\* C4: for a document read without failure (opened, every page read,
\* closed), extract_attachment_text returns the text of pages 2..N in
\* order, which is the empty string when N = 1.
RECURSIVE PagesText(_, _)
PagesText(from, to) ==
    IF from > to THEN <<>> ELSE PageText(from) \o PagesText(from + 1, to)

C4_AttachmentText ==
    pc = "L162" /\ doc = "closed"
        => /\ attachment_text = Text(PagesText(2, page_count))
           /\ page_count = 1 => attachment_text = Text(<<>>)

C4_Witness ==
    /\ pc = "L162"
    /\ doc = "closed"
    /\ page_count >= 3
    /\ \A k \in 1..page_count : pages[k]
    /\ attachment_text = Text(<<"page2", "page3">> \o PagesText(4, page_count))

\* C5: the document moves through the phases in the order Discovered,
\* TextExtracted, StructuredExtracted, [AttachmentsSummarized], Summarized,
\* Persisted; a failed text extraction or structured extraction moves it to
\* Skipped, where nothing has been written, no summary has been asked of the
\* model, and no further step is taken.
Phase ==
    CASE pc \in {"etp_open", "etp_loop", "L143"} -> "Discovered"
      [] pc = "L147" -> "TextExtracted"
      [] pc \in {"ret144", "ret150"} -> "Skipped"
      [] pc \in {"L153", "eat_open", "eat_loop", "L162"} -> "StructuredExtracted"
      [] pc \in {"L171", "L180"} ->
            IF attachment_summary # None
            THEN "AttachmentsSummarized"
            ELSE "StructuredExtracted"
      [] pc = "L183" -> "Summarized"
      [] OTHER -> "Persisted"

PhaseEdges ==
    { <<"Discovered", "TextExtracted">>,
      <<"Discovered", "Skipped">>,
      <<"TextExtracted", "StructuredExtracted">>,
      <<"TextExtracted", "Skipped">>,
      <<"StructuredExtracted", "AttachmentsSummarized">>,
      <<"StructuredExtracted", "Summarized">>,
      <<"AttachmentsSummarized", "Summarized">>,
      <<"Summarized", "Persisted">> }

C5_Step ==
    /\ Phase' # Phase => <<Phase, Phase'>> \in PhaseEdges
    /\ pc = "L143" /\ ~Truthy(form_text) => Phase' = "Skipped"
    /\ pc = "L147" /\ ~Truthy(structured_data') => Phase' = "Skipped"
    /\ Phase' = "Skipped"
        => /\ files' = NoFiles
           /\ calls'.attachments = 0
           /\ calls'.summary = 0
    /\ Phase = "Skipped" => UNCHANGED vars

C5_Pipeline == [][C5_Step]_vars

C5_Witness ==
    /\ Phase = "Skipped"
    /\ pc = "ret150"
    /\ calls.extract = 1
    /\ files = NoFiles

\* C6: once structured extraction has returned a record (a parsed JSON
\* object), the run ends with summary.txt written.
C6_SummaryWritten ==
    Terminated /\ response # Pending /\ Tag(structured_data) = "obj"
        => files.summary # None

\* C7: the prompt of generate_summary contains the serialized record; it
\* has no attachment section when no attachment summary is given, and
\* contains the attachment summary when one is given.
AttachmentSection == {AttachmentIntro, AttachmentInstruction}
PromptTokens == {prompt[n] : n \in 1..Len(prompt)}

C7_SummaryPrompt ==
    pc \in {"L183", "end"}
        => /\ Contains(prompt, JsonDumps(structured_data, PromptIndent))
           /\ attachment_summary = None
                => PromptTokens \cap AttachmentSection = {}
           /\ attachment_summary # None
                => Contains(prompt, Val(attachment_summary))

C7_Witness ==
    /\ pc = "L183"
    /\ Truthy(attachment_summary)
    /\ AttachmentSection \subseteq PromptTokens
    /\ Contains(prompt, Val(attachment_summary))
    /\ Contains(prompt, JsonDumps(structured_data, PromptIndent))

\* C8: summarize_attachments is called only with non-empty attachment text;
\* attachment_summary.txt is written exactly when the attachment text is
\* non-empty; a one-page document gets no attachment summary file and a
\* final summary made without an attachment summary.
AfterAttachments == pc \in {"L171", "L180", "L183", "end"}

C8_AttachmentsOnlyWithText ==
    /\ calls.attachments > 0 => Truthy(attachment_text)
    /\ files.attachment # None <=> AfterAttachments /\ Truthy(attachment_text)
    /\ page_count = 1
        => /\ files.attachment = None
           /\ calls.attachments = 0
           /\ pc \in {"L183", "end"}
                => /\ attachment_summary = None
                   /\ PromptTokens \cap AttachmentSection = {}

C8_Witness ==
    /\ pc = "end"
    /\ page_count = 1
    /\ pages[1]
    /\ files.attachment = None
    /\ files.json # None
    /\ files.summary # None

\* C9: when an extractor has returned, the document it opened is closed.
C9_DocumentReleased ==
    pc \notin {"etp_loop", "eat_loop"} => doc # "open"

\* C10: summarize_attachments and generate_summary return a string for
\* every outcome of the model call, failures included, and main is not
\* ended by an exception of theirs.
SummarizerFailure(s, outcome) ==
    /\ Tag(s) = "text"
    /\ Len(Val(s)) = 2
    /\ Val(s)[2] = outcome.status

C10_SummariesAreStrings ==
    /\ calls.attachments > 0 => Tag(attachment_summary) = "text"
    /\ calls.summary > 0 => Tag(summary) = "text"
    /\ pc \in {"L162", "L180"} => raised = "none"

C10_Witness ==
    /\ pc = "end"
    /\ \E o \in FailedOutcomes : SummarizerFailure(attachment_summary, o)
    /\ \E o \in FailedOutcomes : SummarizerFailure(summary, o)
    /\ files.summary = summary
    /\ files.attachment = attachment_summary
====
